---- MODULE Spec2Model ----
(***************************************************************************)
(* TWTrend: relative-strength (RS) ranking and trend-template scoring.     *)
(*                                                                         *)
(* The repository holds three dashboard scripts that each re-implement the *)
(* scoring:                                                                *)
(*   run_stock.py                strict history (240 rows), percentile RS  *)
(*                               truncated to an integer                   *)
(*   .devcontainer/TWfinmind.py  pct_change returns, percentile RS, eight  *)
(*                               point checklist, sort, filter             *)
(*   TWTrend.py                  benchmark-relative RS, eight conditions   *)
(* Each script is modelled as its own state machine over shared variables. *)
(*                                                                         *)
(* Numbers.  pandas computes in IEEE doubles with NaN and infinities.  A   *)
(* value is modelled as a pair <<n, d>>: d > 0 is the exact rational n/d   *)
(* in lowest terms, <<1,0>> is +inf, <<-1,0>> is -inf and <<0,0>> is NaN.  *)
(* Rounding of the last binary digit is not modelled.                      *)
(***************************************************************************)
EXTENDS Integers, Sequences, FiniteSets, TLC

VARIABLES
    script,           \* which script runs (fixed during a behaviour)
    pc,               \* position of the script
    price_df,         \* stock -> close series, ascending by date
    volume_df,        \* stock -> volume series (TWfinmind)
    high_df,          \* stock -> High series (TWTrend)
    low_df,           \* stock -> Low series (TWTrend)
    market_close,     \* the benchmark frame m_df: its columns and Close rows (TWTrend)
    cursor,           \* position of the per-stock loop
    results,          \* the list the loop appends to
    rs_df,            \* the table of the RS stage
    out_df,           \* the table handed to the display
    top_n,            \* slider "top N"
    min_score_filter, \* slider "minimum total score"
    ui,               \* what the page shows: "none", "table", "info", "warning", "error"
    err               \* "none" or the exception that left the script uncaught

vars == <<script, pc, price_df, volume_df, high_df, low_df, market_close,
          cursor, results, rs_df, out_df, top_n, min_score_filter, ui, err>>

----------------------------------------------------------------------------
(* Bounds of the model *)

NStocks == 2

\* closing prices of the input families are MaxPrice - 1 and MaxPrice
MaxPrice == 5

PriceLevels == {MaxPrice - 1, MaxPrice}

Stocks == 1..NStocks

----------------------------------------------------------------------------
(* Double arithmetic with NaN and infinities *)

NaN == <<0, 0>>

PosInf == <<1, 0>>

NegInf == <<-1, 0>>

Abs(n) == IF n < 0 THEN -n ELSE n

Sgn(n) == IF n > 0 THEN 1 ELSE IF n < 0 THEN -1 ELSE 0

RECURSIVE GCD(_, _)
GCD(a, b) == IF b = 0 THEN a ELSE GCD(b, a % b)

\* n/d with d # 0 brought to lowest terms and a positive denominator
Norm(n, d) ==
    LET g == GCD(Abs(n), Abs(d))
    IN  <<Sgn(d) * (n \div g), Abs(d) \div g>>

F(k) == <<k, 1>>

IsNaN(x) == x = NaN

IsFinite(x) == x[2] > 0

\* x / y on doubles: x/0 is +-inf, 0/0 and anything with NaN is NaN
FDiv(x, y) ==
    IF IsNaN(x) \/ IsNaN(y) THEN NaN
    ELSE IF IsFinite(x) /\ IsFinite(y)
         THEN IF y[1] = 0 THEN <<Sgn(x[1]), 0>>
              ELSE Norm(x[1] * y[2], x[2] * y[1])
    ELSE IF IsFinite(x) THEN F(0)                       \* finite / inf
    ELSE IF IsFinite(y)
         THEN <<x[1] * (IF y[1] < 0 THEN -1 ELSE 1), 0>> \* inf / finite
    ELSE NaN                                             \* inf / inf

FAdd(x, y) ==
    IF IsNaN(x) \/ IsNaN(y) THEN NaN
    ELSE IF IsFinite(x) /\ IsFinite(y)
         THEN Norm(x[1] * y[2] + y[1] * x[2], x[2] * y[2])
    ELSE IF IsFinite(x) THEN y
    ELSE IF IsFinite(y) THEN x
    ELSE IF x = y THEN x ELSE NaN                        \* inf - inf

FNeg(x) == <<-x[1], x[2]>>

FSub(x, y) == FAdd(x, FNeg(y))

FMul(x, y) ==
    IF IsNaN(x) \/ IsNaN(y) THEN NaN
    ELSE IF IsFinite(x) /\ IsFinite(y)
         THEN Norm(x[1] * y[1], x[2] * y[2])
    ELSE IF Sgn(x[1]) * Sgn(y[1]) = 0 THEN NaN           \* 0 * inf
    ELSE <<Sgn(x[1]) * Sgn(y[1]), 0>>

\* x < y on doubles: every comparison with NaN is false
FLt(x, y) ==
    IF IsNaN(x) \/ IsNaN(y) THEN FALSE
    ELSE IF IsFinite(x) /\ IsFinite(y) THEN x[1] * y[2] < y[1] * x[2]
    ELSE IF IsFinite(x) THEN y = PosInf
    ELSE IF IsFinite(y) THEN x = NegInf
    ELSE x = NegInf /\ y = PosInf

FGt(x, y) == FLt(y, x)

FEq(x, y) == ~IsNaN(x) /\ ~IsNaN(y) /\ x = y

FGe(x, y) == FGt(x, y) \/ FEq(x, y)

FLe(x, y) == FLt(x, y) \/ FEq(x, y)

----------------------------------------------------------------------------
(* Series helpers (pandas indexing on a series s, 1-based here) *)

\* s.iloc[-n]: the n-th observation counted from the end
ILocNeg(s, n) == s[Len(s) - n + 1]

\* the sum of rows lo..hi; whole-number rows are added as integers
RECURSIVE SumInt(_, _, _)
SumInt(s, lo, hi) ==
    IF lo > hi THEN 0
    ELSE IF lo = hi THEN s[lo][1]
    ELSE LET mid == (lo + hi) \div 2
         IN  SumInt(s, lo, mid) + SumInt(s, mid + 1, hi)

RECURSIVE SumFloat(_, _, _)
SumFloat(s, lo, hi) ==
    IF lo > hi THEN F(0)
    ELSE IF lo = hi THEN s[lo]
    ELSE LET mid == (lo + hi) \div 2
         IN  FAdd(SumFloat(s, lo, mid), SumFloat(s, mid + 1, hi))

SumRange(s, lo, hi) ==
    IF \A i \in lo..hi : s[i][2] = 1
    THEN F(SumInt(s, lo, hi))
    ELSE SumFloat(s, lo, hi)

\* s.rolling(w).mean() at row i: NaN until w rows exist or if the window holds NaN
RollingMean(s, w, i) ==
    IF i < w \/ i > Len(s) THEN NaN
    ELSE FDiv(SumRange(s, i - w + 1, i), F(w))

\* max / min of a set of doubles, skipping NaN (pandas skipna); NaN if none
FMaxOf(S) ==
    LET T == {x \in S : ~IsNaN(x)}
    IN  IF T = {} THEN NaN ELSE CHOOSE x \in T : \A y \in T : FLe(y, x)

FMinOf(S) ==
    LET T == {x \in S : ~IsNaN(x)}
    IN  IF T = {} THEN NaN ELSE CHOOSE x \in T : \A y \in T : FLe(x, y)

Range(s) == {s[i] : i \in 1..Len(s)}

\* Input families: a series that is a until its last k rows and b from there
StepSeries(len, a, b, k) == [i \in 1..len |-> IF i <= len - k THEN F(a) ELSE F(b)]

\* ... with the p-th row from the end replaced by z
WithSpike(s, p, z) == [s EXCEPT ![Len(s) - p + 1] = z]

----------------------------------------------------------------------------
(* Tables: a pandas DataFrame is its set of column names and its rows *)

NoFrame == [columns |-> {}, rows |-> <<>>]

\* pd.DataFrame(list of dicts): no rows means no columns either
DataFrame(recs) ==
    IF recs = <<>> THEN NoFrame
    ELSE [columns |-> DOMAIN recs[1], rows |-> recs]

Empty(df) == df.rows = <<>>

\* sort_values: the rows in key order, rows with equal keys in their former
\* order.  Before(a, b): a's key sorts strictly before b's.
SortRows(s, Before(_, _)) ==
    LET n == Len(s)
        Pos(k) == 1 + Cardinality({j \in 1..n :
                         \/ Before(s[j], s[k])
                         \/ (~Before(s[k], s[j]) /\ j < k)})
    IN  [p \in 1..n |-> s[CHOOSE k \in 1..n : Pos(k) = p]]

----------------------------------------------------------------------------
(* Series.rank(pct=True): average rank among the non-NaN values, divided   *)
(* by their count; NaN stays NaN.  ws is the column as a sequence.         *)

Valid(ws) == {j \in 1..Len(ws) : ~IsNaN(ws[j])}

\* twice the rank of row i, method "first": ties ranked by position
TwiceRankFirst(ws, i) ==
    2 * (Cardinality({j \in Valid(ws) : FLt(ws[j], ws[i])})
         + Cardinality({j \in Valid(ws) : j <= i /\ FEq(ws[j], ws[i])}))

\* twice the rank of row i, method "average" (the default): ties share the
\* mean of the ranks they cover
TwiceRank(ws, i) ==
    2 * Cardinality({j \in Valid(ws) : FLt(ws[j], ws[i])})
    + Cardinality({j \in Valid(ws) : FEq(ws[j], ws[i])}) + 1

\* rank(pct=True) * 100
RankPct100(ws, i) ==
    IF IsNaN(ws[i]) THEN NaN
    ELSE Norm(100 * TwiceRank(ws, i), 2 * Cardinality(Valid(ws)))

\* float -> int of astype(int): truncation; NaN and inf cannot be cast
CanCastInt(x) == IsFinite(x)

AsTypeInt(x) == Sgn(x[1]) * (Abs(x[1]) \div x[2])

----------------------------------------------------------------------------
(* run_stock.py *)

\* safe_ratio: NaN is truthy and differs from 0, so it is divided by
safe_ratio(curr, ref) ==
    IF ref # F(0) THEN FDiv(curr, ref) ELSE F(1)

\* The reference row of the 12-month ratio: group.iloc[0]
R12Ref(group) == group[1]

\* One pass of the loop body of calculate_rs_score for a group of >= 240 rows
rs_record(stock_id, group) ==
    LET curr_p == ILocNeg(group, 1)
        r3  == safe_ratio(curr_p, ILocNeg(group, 60))
        r6  == safe_ratio(curr_p, ILocNeg(group, 120))
        r9  == safe_ratio(curr_p, ILocNeg(group, 180))
        r12 == safe_ratio(curr_p, R12Ref(group))
    IN  [Stock |-> stock_id,
         Price |-> curr_p,
         r3 |-> r3, r6 |-> r6, r9 |-> r9, r12 |-> r12,
         Weighted_Ret |-> FAdd(FAdd(FAdd(FMul(r3, F(2)), r6), r9), r12),
         High_1Y |-> FMaxOf(Range(group))]

\* a column of a table as a sequence
Column(rows, c) == [k \in 1..Len(rows) |-> rows[k][c]] \o <<>>

\* rs_df["RS Score"] = (rank(pct=True) * 100).astype(int)
RSScoreInt(ws, i) == AsTypeInt(RankPct100(ws, i))

InitRunStockFamily ==
    {<<>>}
    \cup {StepSeries(len, a, b, k) :
            len \in {100, 240, 241}, a \in PriceLevels, b \in PriceLevels,
            k \in {60, 240}}
    \cup {WithSpike(StepSeries(240, MaxPrice, MaxPrice, 0), 60, z) : z \in {F(0), NaN}}

InitRunStock ==
    /\ script = "run_stock"
    /\ pc = "main"
    /\ price_df \in [Stocks -> InitRunStockFamily]
    /\ volume_df = <<>> /\ high_df = <<>> /\ low_df = <<>>
    /\ market_close = NoFrame
    /\ cursor = 0
    /\ results = <<>>
    /\ rs_df = NoFrame
    /\ out_df = NoFrame
    /\ top_n = 0 /\ min_score_filter = 0
    /\ ui = "none"
    /\ err = "none"

inputs == <<script, price_df, volume_df, high_df, low_df, market_close>>

sliders == <<top_n, min_score_filter>>

\* "if not df_p.empty:" ... "else: st.warning(...)"
RS_Main ==
    /\ script = "run_stock" /\ pc = "main"
    /\ IF \A s \in Stocks : price_df[s] = <<>>
       THEN pc' = "done" /\ ui' = "warning" /\ cursor' = cursor
       ELSE pc' = "calculate_rs_score" /\ ui' = ui /\ cursor' = 1
    /\ UNCHANGED <<inputs, sliders, results, rs_df, out_df, err>>

\* one iteration of "for stock_id, group in price_df.groupby(...)"
RS_Loop ==
    /\ script = "run_stock" /\ pc = "calculate_rs_score"
    /\ cursor <= NStocks
    /\ LET group == price_df[cursor]
       IN  results' = IF Len(group) < 240 THEN results
                      ELSE Append(results, rs_record(cursor, group))
    /\ cursor' = cursor + 1
    /\ UNCHANGED <<inputs, sliders, pc, rs_df, out_df, ui, err>>

\* the tail of calculate_rs_score: DataFrame, early return, rank
RS_Rank ==
    /\ script = "run_stock" /\ pc = "calculate_rs_score"
    /\ cursor > NStocks
    /\ LET df == DataFrame(results)
           ws == Column(results, "Weighted_Ret")
       IN  IF Empty(df)
           THEN rs_df' = df /\ pc' = "apply_filters" /\ err' = err
           ELSE IF \E k \in 1..Len(ws) : ~CanCastInt(RankPct100(ws, k))
           THEN rs_df' = rs_df /\ pc' = "crashed" /\ err' = "ValueError"
           ELSE /\ rs_df' = [columns |-> df.columns \cup {"RS Score"},
                             rows |-> [k \in 1..Len(results) |->
                                 [c \in DOMAIN results[k] \cup {"RS Score"} |->
                                     IF c = "RS Score" THEN RSScoreInt(ws, k)
                                     ELSE results[k][c]]]]
                /\ pc' = "apply_filters" /\ err' = err
    /\ UNCHANGED <<inputs, sliders, cursor, results, out_df, ui>>

\* Part A of apply_filters for one group of >= 200 rows
is_setup(close) ==
    LET n == Len(close)
        ma50  == RollingMean(close, 50, n)
        ma150 == RollingMean(close, 150, n)
        ma200 == RollingMean(close, 200, n)
    IN  IF IsNaN(ma50) \/ IsNaN(ma150) \/ IsNaN(ma200) THEN FALSE
        ELSE FGt(close[n], ma50) /\ FGt(ma50, ma150) /\ FGt(ma150, ma200)

\* apply_filters: the technical template, the left merge on "Stock", fillna.
\* The revenue and institutional queries sit in try/except and only add the
\* columns Rev_YoY and Inst_Sync from tables outside the scoring engine.
RS_ApplyFilters ==
    /\ script = "run_stock" /\ pc = "apply_filters"
    /\ IF "Stock" \notin rs_df.columns
       THEN out_df' = out_df /\ pc' = "crashed" /\ err' = "KeyError"
       ELSE /\ out_df' =
                 [columns |-> rs_df.columns \cup {"Explosive Setup"},
                  rows |-> [k \in 1..Len(rs_df.rows) |->
                      [c \in DOMAIN rs_df.rows[k] \cup {"Explosive Setup"} |->
                          IF c = "Explosive Setup"
                          THEN LET g == price_df[rs_df.rows[k].Stock]
                               IN  Len(g) >= 200 /\ is_setup(g)
                          ELSE rs_df.rows[k][c]]]]
            /\ pc' = "display" /\ err' = err
    /\ UNCHANGED <<inputs, sliders, cursor, results, rs_df, ui>>

\* the ranking table: full_df.sort_values("RS Score", ascending=False)
RS_Display ==
    /\ script = "run_stock" /\ pc = "display"
    /\ out_df' = [out_df EXCEPT !.rows =
                    SortRows(@, LAMBDA a, b : a["RS Score"] > b["RS Score"])]
    /\ pc' = "done"
    /\ ui' = "table"
    /\ UNCHANGED <<inputs, sliders, cursor, results, rs_df, err>>

NextRunStock == RS_Main \/ RS_Loop \/ RS_Rank \/ RS_ApplyFilters \/ RS_Display

SpecRunStock == InitRunStock /\ [][NextRunStock]_vars

----------------------------------------------------------------------------
(* run_stock.py: claims *)

AllPositive(g) == \A i \in 1..Len(g) : IsFinite(g[i]) /\ g[i][1] > 0

\* C1 (as claimed): for every ranked instrument with a positive close series
\* of length >= 240, the four return ratios equal close[-1] / close[-N] for
\* N = 60, 120, 180, 240, where close[-N] is the N-th row from the end.
C1_ReturnRatiosExact ==
    script = "run_stock" =>
        \A k \in 1..Len(results) :
            LET g == price_df[results[k].Stock]
                c == ILocNeg(g, 1)
            IN  (Len(g) >= 240 /\ AllPositive(g)) =>
                    /\ results[k].r3  = FDiv(c, ILocNeg(g, 60))
                    /\ results[k].r6  = FDiv(c, ILocNeg(g, 120))
                    /\ results[k].r9  = FDiv(c, ILocNeg(g, 180))
                    /\ results[k].r12 = FDiv(c, ILocNeg(g, 240))

\* a lookback window of g whose reference price is zero or missing
BadReference(g) ==
    \E N \in {60, 120, 180, 240} : ILocNeg(g, N) = F(0) \/ IsNaN(ILocNeg(g, N))

\* C7 (as claimed): an instrument with a zero or missing reference price in
\* any lookback window is skipped - it is in no ranked record - and the run
\* does not abort.
C7_BadReferenceSkipped ==
    script = "run_stock" =>
        \A s \in Stocks :
            (Len(price_df[s]) >= 240 /\ BadReference(price_df[s])) =>
                /\ \A k \in 1..Len(results) : results[k].Stock # s
                /\ err = "none"

\* C9 (as claimed): when the universe is non-empty and no instrument passes
\* the minimum-history filter, the pipeline ends with an empty result and
\* reaches no error state.
C9_NoEligibleNoError ==
    script = "run_stock" =>
        ((\A s \in Stocks : Len(price_df[s]) < 240) =>
            /\ err = "none"
            /\ pc # "crashed"
            /\ (pc = "done" => Empty(out_df)))

----------------------------------------------------------------------------
(* The percentile rank as a function of the column it ranks: the column is *)
(* drawn, and each script's rank line is applied to it.                    *)

MaxRankN == 3

MaxUniverse == 101

RankValues == {F(v) : v \in 1..3} \cup {PosInf, NaN}

\* a universe of n instruments whose weighted scores take m distinct values
Universe(n, m) == [i \in 1..n |-> [Weighted_Ret |-> F(i % m)]]

InitRank ==
    /\ script = "rank"
    /\ pc = "rank"
    /\ results \in
         UNION {[1..n -> [Weighted_Ret : RankValues]] : n \in 0..MaxRankN}
         \cup {Universe(n, m) : n \in (MaxUniverse - 1)..MaxUniverse,
                                m \in {2, MaxUniverse + 1}}
    /\ price_df = <<>> /\ volume_df = <<>> /\ high_df = <<>> /\ low_df = <<>>
    /\ market_close = NoFrame
    /\ cursor = 0
    /\ rs_df = NoFrame
    /\ out_df = NoFrame
    /\ top_n = 0 /\ min_score_filter = 0
    /\ ui = "none"
    /\ err = "none"

\* run_stock.py: (rs_df["Weighted_Ret"].rank(pct=True) * 100).astype(int);
\* the integer column is held as RS here, like the column of Rank_Pct
Rank_AsInt ==
    /\ script = "rank" /\ pc = "rank"
    /\ LET ws == Column(results, "Weighted_Ret")
       IN  IF \E k \in 1..Len(ws) : ~CanCastInt(RankPct100(ws, k))
           THEN rs_df' = rs_df /\ pc' = "crashed" /\ err' = "ValueError"
           ELSE /\ rs_df' = [columns |-> {"Weighted_Ret", "RS"},
                             rows |-> [k \in 1..Len(ws) |->
                                 [Weighted_Ret |-> ws[k],
                                  RS |-> F(RSScoreInt(ws, k))]]]
                /\ pc' = "ranked" /\ err' = err
    /\ UNCHANGED <<inputs, sliders, cursor, results, out_df, ui>>

\* TWfinmind.py: latest["rs_raw"].rank(pct=True) * 100
Rank_Pct ==
    /\ script = "rank" /\ pc = "rank"
    /\ LET ws == Column(results, "Weighted_Ret")
       IN  rs_df' = [columns |-> {"Weighted_Ret", "RS"},
                     rows |-> [k \in 1..Len(ws) |->
                         [Weighted_Ret |-> ws[k], RS |-> RankPct100(ws, k)]]]
    /\ pc' = "ranked"
    /\ UNCHANGED <<inputs, sliders, cursor, results, out_df, ui, err>>

NextRank == Rank_AsInt \/ Rank_Pct

SpecRank == InitRank /\ [][NextRank]_vars

\* C2: within one scoring run the RS score is monotonic in the weighted
\* score: a strictly greater weighted score never gets a smaller RS score,
\* and equal weighted scores get equal RS scores.
C2_RankMonotonic ==
    pc = "ranked" =>
        \A a, b \in 1..Len(rs_df.rows) :
            LET ra == rs_df.rows[a]
                rb == rs_df.rows[b]
            IN  /\ FGt(ra.Weighted_Ret, rb.Weighted_Ret) => FGe(ra.RS, rb.RS)
                /\ FEq(ra.Weighted_Ret, rb.Weighted_Ret) => ra.RS = rb.RS

\* C2 witness: a ranked run holding a tie and a strictly ordered pair
C2_Witness ==
    /\ pc = "ranked"
    /\ \E a, b, c \in 1..Len(rs_df.rows) :
          /\ a # b
          /\ FEq(rs_df.rows[a].Weighted_Ret, rs_df.rows[b].Weighted_Ret)
          /\ FGt(rs_df.rows[c].Weighted_Ret, rs_df.rows[a].Weighted_Ret)
          /\ FGt(rs_df.rows[c].RS, rs_df.rows[a].RS)

\* C3 (as claimed): every RS score lies in (0, 100], and an instrument that
\* alone holds the maximum weighted score has RS score 100, whatever the
\* size of the universe.
C3_ScoreRange ==
    pc = "ranked" =>
        \A a \in 1..Len(rs_df.rows) :
            LET ra == rs_df.rows[a]
            IN  ~IsNaN(ra.Weighted_Ret) =>
                  /\ FGt(ra.RS, F(0)) /\ FLe(ra.RS, F(100))
                  /\ (\A b \in 1..Len(rs_df.rows) :
                         b # a => FLt(rs_df.rows[b].Weighted_Ret, ra.Weighted_Ret))
                     => ra.RS = F(100)

----------------------------------------------------------------------------
(* .devcontainer/TWfinmind.py *)

MaxTopN == 12

\* groupby("stock_id")["close"].pct_change(N) at row i: close[i] / close[i-N] - 1
PctChange(s, N, i) ==
    IF i <= N THEN NaN ELSE FSub(FDiv(s[i], s[i - N]), F(1))

\* the row kept by dropna(subset=[r3, ma50, ma150, ma200]).groupby.tail(1):
\* the last row of the stock on which all four are defined, 0 if there is none
RowUsable(s, i) ==
    /\ ~IsNaN(PctChange(s, 60, i))
    /\ ~IsNaN(RollingMean(s, 200, i))
    /\ ~IsNaN(RollingMean(s, 150, i))
    /\ ~IsNaN(RollingMean(s, 50, i))

LatestRow(s) ==
    LET usable == {i \in 200..Len(s) : RowUsable(s, i)}
    IN  IF usable = {} THEN 0
        ELSE CHOOSE i \in usable : \A j \in usable : j <= i

\* latest[col].fillna(0)
FillNa0(x) == IF IsNaN(x) THEN F(0) ELSE x

\* the row of latest for one stock, before the rank; i is LatestRow(s)
latest_row(stock_id, s, i) ==
    LET r3  == PctChange(s, 60, i)
        r6  == FillNa0(PctChange(s, 120, i))
        r9  == FillNa0(PctChange(s, 180, i))
        r12 == FillNa0(PctChange(s, 240, i))
    IN  [stock_id |-> stock_id, row |-> i, close |-> s[i],
         ma50 |-> RollingMean(s, 50, i),
         ma150 |-> RollingMean(s, 150, i),
         ma200 |-> RollingMean(s, 200, i),
         r3 |-> r3, r6 |-> r6, r9 |-> r9, r12 |-> r12,
         rs_raw |-> FAdd(FAdd(FAdd(FMul(r3, F(2)), r6), r9), r12)]

\* s.tail(k): the rows it covers
TailRows(s, k) == (IF Len(s) > k THEN Len(s) - k + 1 ELSE 1)..Len(s)

\* Series.mean() over a set of rows (no NaN volumes are loaded)
MeanRows(s, rows) ==
    IF rows = {} THEN NaN
    ELSE FDiv(SumRange(s, CHOOSE lo \in rows : \A r \in rows : lo <= r,
                          CHOOSE hi \in rows : \A r \in rows : r <= hi),
              F(Cardinality(rows)))

\* ma200.tail(20).is_monotonic_increasing: no NaN and never decreasing
Ma200Monotonic(s) ==
    LET rows == TailRows(s, 20)
        first == Len(s) - Cardinality(rows)
    IN  \E ma200_series \in
            {[k \in 1..Cardinality(rows) |-> RollingMean(s, 200, first + k)] \o <<>>} :
          /\ \A k \in 1..Len(ma200_series) : ~IsNaN(ma200_series[k])
          /\ \A k \in 1..(Len(ma200_series) - 1) :
                FLe(ma200_series[k], ma200_series[k + 1])

\* item 8: recent_vol > prior_vol * 1.1 if not np.isnan(prior_vol) else False
VolumeCheck(vol) ==
    LET t40 == TailRows(vol, 40)
        first == CHOOSE lo \in t40 : \A r \in t40 : lo <= r
        recent_vol == MeanRows(vol, TailRows(vol, 20))
        prior_vol  == MeanRows(vol, {r \in t40 : r < first + 20})
    IN  IF IsNaN(prior_vol) THEN FALSE
        ELSE FGt(recent_vol, FMul(prior_vol, Norm(11, 10)))

\* check_trend_template(row): the eight checks in the order they are appended
check_trend_template(row, s, vol) ==
    LET dist_200 == FDiv(FSub(row.close, row.ma200), row.ma200)
        high_52w == FMaxOf({s[r] : r \in TailRows(s, 252)})
    IN  << FGt(row.close, row.ma150) /\ FGt(row.close, row.ma200),
           FGt(row.ma150, row.ma200),
           IF Cardinality(TailRows(s, 20)) >= 10 THEN Ma200Monotonic(s) ELSE FALSE,
           FLe(dist_200, Norm(25, 100)),
           FGe(row.close, FMul(high_52w, Norm(85, 100))),
           FGe(row.RS, F(70)),
           FGt(row.close, row.ma50),
           VolumeCheck(vol) >>

\* sum(checks)
CountTrue(checks) == Cardinality({k \in 1..Len(checks) : checks[k]})

WithField(r, c, v) == [x \in DOMAIN r \cup {c} |-> IF x = c THEN v ELSE r[x]]

\* sort_values(['total_score', 'RS'], ascending=False)
ScoreThenRS(a, b) ==
    \/ a.total_score > b.total_score
    \/ (a.total_score = b.total_score /\ FGt(a.RS, b.RS))

\* the filter with a strict threshold
filtered_strict(rows, min_score, n) ==
    LET kept == SelectSeq(rows, LAMBDA r : r.total_score > min_score)
    IN  SubSeq(kept, 1, IF Len(kept) < n THEN Len(kept) ELSE n)

\* rs_df[rs_df["total_score"] >= min_score_filter].head(top_n)
filtered(rows, min_score, n) ==
    LET kept == SelectSeq(rows, LAMBDA r : r.total_score >= min_score)
    IN  SubSeq(kept, 1, IF Len(kept) < n THEN Len(kept) ELSE n)

FinmindCloseFamily ==
    {<<>>}
    \cup {StepSeries(len, a, b, 60) :
            len \in {100, 220, 260}, a \in PriceLevels, b \in PriceLevels}
    \cup {WithSpike(StepSeries(260, MaxPrice, MaxPrice, 0), p, F(0)) : p \in {1, 61}}

FinmindVolume(len, v) == IF len = 0 THEN <<>> ELSE StepSeries(len, 1, v, 20)

InitFinmind ==
    /\ script = "TWfinmind"
    /\ pc = "load"
    /\ price_df \in [Stocks -> FinmindCloseFamily]
    /\ \E v \in [Stocks -> {1, 2}] :
          volume_df = [s \in Stocks |-> FinmindVolume(Len(price_df[s]), v[s])]
    /\ high_df = <<>> /\ low_df = <<>>
    /\ market_close = NoFrame
    /\ cursor = 0
    /\ results = <<>>
    /\ rs_df = NoFrame
    /\ out_df = NoFrame
    /\ top_n = 0 /\ min_score_filter = 0
    /\ ui = "none"
    /\ err = "none"

\* "if price_df.empty: st.stop()"
FM_Load ==
    /\ script = "TWfinmind" /\ pc = "load"
    /\ IF \A s \in Stocks : price_df[s] = <<>>
       THEN pc' = "stopped" /\ ui' = "error"
       ELSE pc' = "calc_rs_and_trend_template" /\ ui' = ui
    /\ UNCHANGED <<inputs, sliders, cursor, results, rs_df, out_df, err>>

\* calc_rs_and_trend_template up to the rank: moving averages, returns,
\* latest, the early return on an empty latest, fillna, rs_raw, RS
FM_Latest ==
    /\ script = "TWfinmind" /\ pc = "calc_rs_and_trend_template"
    /\ \E at \in {[s \in Stocks |-> LatestRow(price_df[s])] \o <<>>} :
       \E rows \in {SelectSeq([s \in Stocks |->
                                  IF at[s] = 0 THEN <<>>
                                  ELSE latest_row(s, price_df[s], at[s])] \o <<>>,
                              LAMBDA r : r # <<>>)} :
       \E ws \in {Column(rows, "rs_raw")} :
          IF rows = <<>>
          THEN /\ rs_df' = NoFrame /\ results' = results
               /\ cursor' = cursor
               /\ ui' = "warning" /\ pc' = "sliders"
          ELSE /\ results' = [k \in 1..Len(rows) |->
                                 WithField(rows[k], "RS", RankPct100(ws, k))]
               /\ rs_df' = rs_df
               /\ cursor' = 1
               /\ ui' = ui /\ pc' = "check_trend_template"
    /\ UNCHANGED <<inputs, sliders, out_df, err>>

\* latest.apply(check_trend_template, axis=1): one row
FM_Check ==
    /\ script = "TWfinmind" /\ pc = "check_trend_template"
    /\ cursor <= Len(results)
    /\ LET row == results[cursor]
           checks == check_trend_template(row, price_df[row.stock_id],
                                          volume_df[row.stock_id])
       IN  results' = [results EXCEPT ![cursor] =
                          WithField(WithField(row, "checks", checks),
                                    "total_score", CountTrue(checks))]
    /\ cursor' = cursor + 1
    /\ UNCHANGED <<inputs, sliders, pc, rs_df, out_df, ui, err>>

\* latest.sort_values(['total_score', 'RS'], ascending=False); return latest
FM_Sort ==
    /\ script = "TWfinmind" /\ pc = "check_trend_template"
    /\ cursor > Len(results)
    /\ rs_df' = [columns |-> IF results = <<>> THEN {} ELSE DOMAIN results[1],
                 rows |-> SortRows(results, ScoreThenRS)]
    /\ pc' = "sliders"
    /\ UNCHANGED <<inputs, sliders, cursor, results, out_df, ui, err>>

\* the two sliders and "filtered = rs_df[rs_df["total_score"] >= ...].head(top_n)"
FM_Filter ==
    /\ script = "TWfinmind" /\ pc = "sliders"
    /\ \E n \in 10..MaxTopN, m \in 0..8 :
          /\ top_n' = n /\ min_score_filter' = m
          /\ IF "total_score" \notin rs_df.columns
             THEN out_df' = out_df /\ pc' = "crashed" /\ err' = "KeyError"
             ELSE /\ out_df' = [columns |-> rs_df.columns,
                                rows |-> filtered(rs_df.rows, m, n)]
                  /\ pc' = "display" /\ err' = err
    /\ UNCHANGED <<inputs, cursor, results, rs_df, ui>>

\* "if filtered.empty: st.info(...) else: st.dataframe(...)"
FM_Display ==
    /\ script = "TWfinmind" /\ pc = "display"
    /\ ui' = IF Empty(out_df) THEN "info" ELSE "table"
    /\ pc' = "done"
    /\ UNCHANGED <<inputs, sliders, cursor, results, rs_df, out_df, err>>

NextFinmind ==
    FM_Load \/ FM_Latest \/ FM_Check \/ FM_Sort \/ FM_Filter \/ FM_Display

SpecFinmind == InitFinmind /\ [][NextFinmind]_vars

----------------------------------------------------------------------------
(* TWfinmind.py: claims *)

FinmindRanked == script = "TWfinmind" /\ pc \in {"check_trend_template", "sliders",
                                                "display", "done", "crashed"}

\* C6 (as claimed): the lenient calculator ranks every instrument that has
\* at least 60 observations, neutral-filling the returns it cannot compute.
C6_LenientRanksFrom60 ==
    FinmindRanked =>
        \A s \in Stocks :
            (Len(price_df[s]) >= 60 /\ AllPositive(price_df[s])) =>
                \E k \in 1..Len(results) :
                    /\ results[k].stock_id = s
                    /\ Len(price_df[s]) <= 120 => results[k].r6 = F(0)
                    /\ Len(price_df[s]) <= 180 => results[k].r9 = F(0)
                    /\ Len(price_df[s]) <= 240 => results[k].r12 = F(0)

\* the eight criteria of the claim for the row at index i of series s
ClaimedChecklist(row, s, offset) ==
    LET i == row.row
        low_52w  == FMinOf({s[r] : r \in TailRows(s, 252)})
        high_52w == FMaxOf({s[r] : r \in TailRows(s, 252)})
    IN  << FGt(row.close, row.ma150) /\ FGt(row.close, row.ma200),
           FGt(row.ma150, row.ma200),
           FGt(row.ma200, RollingMean(s, 200, i - offset)),
           FGt(row.ma50, row.ma150) /\ FGt(row.ma50, row.ma200),
           FGt(row.close, row.ma50),
           FGe(row.close, FMul(low_52w, Norm(130, 100))),
           FGe(row.close, FMul(high_52w, Norm(75, 100))),
           FGe(row.RS, F(70)) >>

\* C5 (as claimed): the eight booleans of every scored instrument are, in
\* order: close above MA150 and MA200; MA150 > MA200; MA200 above its value
\* about 22 periods earlier; MA50 above MA150 and MA200; close > MA50;
\* close >= 1.30 x 252-period low; close >= 0.75 x 252-period high;
\* RS score >= 70; and the total is their count.
C5_ChecklistOrder ==
    script = "TWfinmind" =>
        \A k \in 1..Len(results) :
            "checks" \in DOMAIN results[k] =>
                /\ \E offset \in {21, 22} :
                      results[k].checks =
                          ClaimedChecklist(results[k],
                                           price_df[results[k].stock_id], offset)
                /\ results[k].total_score = CountTrue(results[k].checks)

\* the volume histories a stock of this length is loaded with
VolumeFamily(len) == {FinmindVolume(len, v) : v \in {1, 2}}

\* C11 (as claimed): the volume-turnover predicate (trailing-20 average
\* volume > 1.1 x prior-20 average volume) never contributes to the 0-8
\* total: with any other volume history and everything else unchanged,
\* every instrument's total score is the same.
C11_VolumeNotInTotal ==
    script = "TWfinmind" =>
        \A k \in 1..Len(results) :
            "total_score" \in DOMAIN results[k] =>
                \A vol \in VolumeFamily(Len(price_df[results[k].stock_id])) :
                    results[k].total_score =
                        CountTrue(check_trend_template(
                                      results[k],
                                      price_df[results[k].stock_id], vol))

----------------------------------------------------------------------------
(* Result assembly and filter of TWfinmind.py on a drawn table: the script *)
(* from its sort_values line on, with `latest` holding up to MaxTopN rows. *)

\* a table of n rows: rs_raw cycles through m values, the seven checks other
\* than "RS >= 70" count (b * i + c) % 8
DrawnLatest(n, a, m, b, c) ==
    LET ws == [i \in 1..n |-> F((a * i) % m)] \o <<>>
    IN  [i \in 1..n |->
            LET rs == RankPct100(ws, i)
            IN  [stock_id |-> i, rs_raw |-> ws[i], RS |-> rs,
                 total_score |-> ((b * i + c) % 8) + (IF FGe(rs, F(70)) THEN 1 ELSE 0)]]

InitFilter ==
    /\ script = "TWfinmind"
    /\ pc = "check_trend_template"
    /\ \E n \in 1..MaxTopN, a \in {1, 5}, m \in {3, 13}, b \in {0, 1, 3}, c \in {0, 4} :
          results = DrawnLatest(n, a, m, b, c)
    /\ cursor = Len(results) + 1
    /\ price_df = <<>> /\ volume_df = <<>> /\ high_df = <<>> /\ low_df = <<>>
    /\ market_close = NoFrame
    /\ rs_df = NoFrame
    /\ out_df = NoFrame
    /\ top_n = 0 /\ min_score_filter = 0
    /\ ui = "none"
    /\ err = "none"

NextFilter == FM_Sort \/ FM_Filter \/ FM_Display

SpecFilter == InitFilter /\ [][NextFilter]_vars

Filtered == script = "TWfinmind" /\ pc \in {"display", "done"}

\* the rows of the assembled table that meet the threshold
Qualifies(i) == rs_df.rows[i].total_score >= min_score_filter

\* the index in the assembled table of the k-th row that meets the threshold
KthQualifying(k) ==
    CHOOSE i \in 1..Len(rs_df.rows) :
        Qualifies(i) /\ Cardinality({j \in 1..i : Qualifies(j)}) = k

\* C10: the assembled table is ordered by total score descending, then RS
\* score descending, and holds every scored instrument exactly once; the
\* filter returns exactly the first top_n rows, in that order, of those whose
\* total score is at least the threshold; so with threshold 0 and top_n at
\* least the number of rows it returns the whole table.
C10_SortAndFilter ==
    Filtered =>
        LET all == rs_df.rows
            out == out_df.rows
            nq  == Cardinality({i \in 1..Len(all) : Qualifies(i)})
        IN  /\ \A i, j \in 1..Len(all) : i < j =>
                  \/ all[i].total_score > all[j].total_score
                  \/ /\ all[i].total_score = all[j].total_score
                     /\ FGe(all[i].RS, all[j].RS)
            /\ Len(all) = Len(results)
            /\ \A r \in 1..Len(results) :
                  Cardinality({i \in 1..Len(all) : all[i] = results[r]}) = 1
            /\ Len(out) = (IF nq < top_n THEN nq ELSE top_n)
            /\ \A k \in 1..Len(out) : out[k] = all[KthQualifying(k)]
            /\ (min_score_filter = 0 /\ top_n >= Len(all)) => out = all

\* C10 witness: a filter that cuts by the threshold and by top_n at once,
\* on a table holding a tie in total score
C10_Witness ==
    /\ Filtered
    /\ Len(out_df.rows) = top_n
    /\ \E i \in 1..Len(rs_df.rows) : ~Qualifies(i)
    /\ Cardinality({i \in 1..Len(rs_df.rows) : Qualifies(i)}) > top_n
    /\ \E i, j \in 1..Len(rs_df.rows) :
          /\ i < j
          /\ rs_df.rows[i].total_score = rs_df.rows[j].total_score
          /\ FGt(rs_df.rows[i].RS, rs_df.rows[j].RS)

----------------------------------------------------------------------------
(* TWTrend.py *)
(* Series are aligned at their last date and hold consecutive trading     *)
(* days: row -k of a stock and row -k of the benchmark are the same day,  *)
(* and the benchmark covers a stock's dates iff it is at least as long.   *)

\* round(x, 2): to the nearest hundredth, halves to even
Round2(x) ==
    IF ~IsFinite(x) THEN x
    ELSE LET n == 100 * Abs(x[1])
             q == n \div x[2]
             rem == n - q * x[2]
             r == IF 2 * rem > x[2] THEN q + 1
                  ELSE IF 2 * rem = x[2] THEN q + (q % 2)
                  ELSE q
         IN  Norm(Sgn(x[1]) * r, 100)

None(why) == [none |-> TRUE, why |-> why]

\* the statements of analyze_stock that raise inside its try block:
\* close_s.iloc[-252], market_close.iloc[-1 / -252 / -63],
\* market_close.loc[stock_df.index]
Raises(close_s, market) ==
    \/ Len(close_s) < 252
    \/ Len(market) < 252
    \/ Len(market) < Len(close_s)

\* the eight conditions, in the order of the list cond
Conditions(close_s, high_s, low_s, market) ==
    LET n == Len(close_s)
        last_p == close_s[n]
        m50  == RollingMean(close_s, 50, n)
        m150 == RollingMean(close_s, 150, n)
        m200 == RollingMean(close_s, 200, n)
        m200_prev == RollingMean(close_s, 200, n - 21)
        rs_now  == FMul(FDiv(ILocNeg(close_s, 1), ILocNeg(market, 1)), F(100))
        rs_prev == FMul(FDiv(ILocNeg(close_s, 22), ILocNeg(market, 22)), F(100))
        curr_h52 == FMaxOf({high_s[r] : r \in TailRows(high_s, 252)})
        curr_l52 == FMinOf({low_s[r] : r \in TailRows(low_s, 252)})
    IN  << FGt(last_p, m150) /\ FGt(last_p, m200),
           FGt(m150, m200),
           FGt(m200, m200_prev),
           FGt(m50, m150) /\ FGt(m50, m200),
           FGt(last_p, m50),
           FGe(last_p, FMul(curr_l52, Norm(130, 100))),
           FGe(last_p, FMul(curr_h52, Norm(75, 100))),
           FGt(rs_now, rs_prev) >>

\* the record analyze_stock returns once its conditions are known
stock_record(ticker, close_s, market, cond) ==
    LET stock_perf_1y == FDiv(ILocNeg(close_s, 1), ILocNeg(close_s, 252))
        mkt_perf_1y   == FDiv(ILocNeg(market, 1), ILocNeg(market, 252))
        stock_perf_3m == FDiv(ILocNeg(close_s, 1), ILocNeg(close_s, 63))
        mkt_perf_3m   == FDiv(ILocNeg(market, 1), ILocNeg(market, 63))
    IN  [none |-> FALSE,
         ticker |-> ticker,
         score |-> CountTrue(cond),
         cond |-> cond,
         price |-> Round2(ILocNeg(close_s, 1)),
         q_return |-> Round2(FMul(FSub(stock_perf_3m, F(1)), F(100))),
         rs_1y |-> Round2(FMul(FDiv(stock_perf_1y, mkt_perf_1y), F(100))),
         rs_3m |-> Round2(FMul(FDiv(stock_perf_3m, mkt_perf_3m), F(100)))]

\* analyze_stock without its "if score == 0: return None"
analyze_stock_keep_zero(ticker, close_s, high_s, low_s, market) ==
    IF Len(close_s) < 250 THEN None("short")
    ELSE IF Raises(close_s, market) THEN None("except")
    ELSE stock_record(ticker, close_s, market,
                      Conditions(close_s, high_s, low_s, market))

\* analyze_stock: None for a short series, for an exception, for score 0
analyze_stock(ticker, close_s, high_s, low_s, market) ==
    IF Len(close_s) < 250 THEN None("short")
    ELSE IF Raises(close_s, market) THEN None("except")
    ELSE IF CountTrue(Conditions(close_s, high_s, low_s, market)) = 0
         THEN None("score 0")
    ELSE stock_record(ticker, close_s, market,
                      Conditions(close_s, high_s, low_s, market))

\* descending order of a sort key, NaN last
DescNaNLast(x, y) == (~IsNaN(x) /\ IsNaN(y)) \/ FGt(x, y)

\* sort_values(by=[score, rs_1y, rs_3m], ascending=[False, False, False])
ScoreThenRS1yThenRS3m(a, b) ==
    \/ a.score > b.score
    \/ a.score = b.score /\ DescNaNLast(a.rs_1y, b.rs_1y)
    \/ a.score = b.score /\ a.rs_1y = b.rs_1y /\ DescNaNLast(a.rs_3m, b.rs_3m)

\* the data of one ticker: Close, High, Low after dropna()
TickerData(c, h, l) == [Close |-> c, High |-> h, Low |-> l]

TrendTickerFamily ==
    {TickerData(<<>>, <<>>, <<>>)}
    \cup {TickerData(c, c, c) : c \in {StepSeries(len, MaxPrice, MaxPrice, 0) :
                                          len \in {100, 250}}}
    \cup UNION {{TickerData(c, c, c),
                 TickerData(c, WithSpike(c, 100, F(2 * MaxPrice)), c),
                 TickerData(c, c, WithSpike(c, 100, F(1)))} :
                c \in {StepSeries(260, a, b, 21) : a \in PriceLevels, b \in PriceLevels}}

TrendMarketFamily ==
    {NoFrame, [columns |-> {"Close"}, rows |-> <<>>]}
    \cup {[columns |-> {"Close"}, rows |-> m] :
            m \in {StepSeries(260, MaxPrice, MaxPrice, 0),
                   StepSeries(260, MaxPrice - 1, MaxPrice, 21),
                   StepSeries(251, MaxPrice, MaxPrice, 0)}}

\* the sidebar holds a ticker list (possibly empty) when the button is pressed
InitTrend ==
    /\ script = "TWTrend"
    /\ pc = "button"
    /\ \E n \in {0, NStocks} : \E d \in [1..n -> TrendTickerFamily] :
          /\ price_df = [t \in 1..n |-> d[t].Close]
          /\ high_df  = [t \in 1..n |-> d[t].High]
          /\ low_df   = [t \in 1..n |-> d[t].Low]
    /\ market_close \in TrendMarketFamily
    /\ volume_df = <<>>
    /\ cursor = 0
    /\ results = <<>>
    /\ rs_df = NoFrame
    /\ out_df = NoFrame
    /\ top_n = 0 /\ min_score_filter = 0
    /\ ui = "none"
    /\ err = "none"

ticker_list == DOMAIN price_df

\* the button: empty list -> st.error; m_df['Close'] raising KeyError is
\* caught by the handler's except -> st.error; otherwise the loop starts
TW_Button ==
    /\ script = "TWTrend" /\ pc = "button"
    /\ IF ticker_list = {}
       THEN pc' = "done" /\ ui' = "error" /\ cursor' = cursor
       ELSE IF "Close" \notin market_close.columns
       THEN pc' = "done" /\ ui' = "error" /\ cursor' = cursor
       ELSE pc' = "analyze" /\ ui' = ui /\ cursor' = 1
    /\ UNCHANGED <<inputs, sliders, results, rs_df, out_df, err>>

\* one iteration of "for ticker in ticker_list"
TW_Analyze ==
    /\ script = "TWTrend" /\ pc = "analyze"
    /\ cursor \in ticker_list
    /\ \E res \in {analyze_stock(cursor, price_df[cursor], high_df[cursor],
                                 low_df[cursor], market_close.rows)} :
          results' = IF res.none THEN results ELSE Append(results, res)
    /\ cursor' = cursor + 1
    /\ UNCHANGED <<inputs, sliders, pc, rs_df, out_df, ui, err>>

\* after the loop: the warning, or the sorted table
TW_Assemble ==
    /\ script = "TWTrend" /\ pc = "analyze"
    /\ cursor \notin ticker_list
    /\ IF results = <<>>
       THEN out_df' = out_df /\ ui' = "warning"
       ELSE /\ out_df' = [columns |-> DOMAIN results[1],
                          rows |-> SortRows(results, ScoreThenRS1yThenRS3m)]
            /\ ui' = "table"
    /\ pc' = "done"
    /\ UNCHANGED <<inputs, sliders, cursor, results, rs_df, err>>

NextTrend == TW_Button \/ TW_Analyze \/ TW_Assemble

SpecTrend == InitTrend /\ [][NextTrend]_vars

----------------------------------------------------------------------------
(* TWTrend.py: claims *)

\* C4 (as claimed): every instrument handed to the evaluator gets a
\* checklist of exactly 8 booleans with a total in 0..8; a criterion whose
\* input is unavailable is false, and the instrument is not dropped.
C4_AlwaysAChecklist ==
    (script = "TWTrend" /\ pc \in {"analyze", "done"}) =>
        \A t \in ticker_list :
            (t < cursor /\ Len(price_df[t]) > 0) =>
                \E k \in 1..Len(results) :
                    /\ results[k].ticker = t
                    /\ Len(results[k].cond) = 8
                    /\ results[k].score \in 0..8

\* the benchmark is absent (no Close column) or empty
NoBenchmark == "Close" \notin market_close.columns \/ market_close.rows = <<>>

\* C8 (as claimed): without a usable benchmark the run fails with a
\* run-level error before any per-instrument computation starts, and never
\* completes with an ordinary result.
C8_MissingBenchmarkFailsFast ==
    (script = "TWTrend" /\ ticker_list # {} /\ NoBenchmark) =>
        /\ pc # "analyze"
        /\ pc = "done" => ui = "error"

\* a ticker the loop has passed
Analyzed(t) == script = "TWTrend" /\ pc \in {"analyze", "done"} /\ t < cursor

\* a ticker with enough history whose analysis raises nothing
Eligible(t) ==
    /\ Len(price_df[t]) >= 250
    /\ ~Raises(price_df[t], market_close.rows)

\* all eight criteria of the ticker are false
AllFalse(t) ==
    CountTrue(Conditions(price_df[t], high_df[t], low_df[t],
                         market_close.rows)) = 0

HasRecord(t) == \E k \in 1..Len(results) : results[k].ticker = t

\* C12: analyze_stock never emits a record whose total score is 0: an
\* eligible instrument with all eight criteria false is dropped like a
\* failed or too-short one, an eligible instrument with a true criterion
\* is kept, and every record in results and in the assembled table has a
\* total score in 1..8.
C12_NoZeroScoreRecord ==
    script = "TWTrend" =>
        /\ \A k \in 1..Len(results) : results[k].score \in 1..8
        /\ \A k \in 1..Len(out_df.rows) : out_df.rows[k].score \in 1..8
        /\ \A t \in ticker_list :
              Analyzed(t) => (HasRecord(t) <=> (Eligible(t) /\ ~AllFalse(t)))
        /\ Len(out_df.rows) <= Cardinality({t \in ticker_list : Eligible(t)})

\* a finished run whose table holds fewer records than there are eligible
\* instruments, because one of them scored 0
C12_Witness ==
    /\ script = "TWTrend" /\ pc = "done" /\ ui = "table"
    /\ \E t \in ticker_list : Eligible(t) /\ AllFalse(t) /\ ~HasRecord(t)
    /\ Len(out_df.rows) >= 1
    /\ Len(out_df.rows) < Cardinality({t \in ticker_list : Eligible(t)})

====
